---- MODULE Spec2Model ----
(***************************************************************************)
(* A model of py2mc-book (src/main.py): the text-component family, the     *)
(* click / hover events, Page and Book and their string encodings.         *)
(*                                                                         *)
(* Representation.                                                         *)
(*  - A Python str is a sequence of chunks (TLA+ strings).  Text supplied  *)
(*    by a caller is written one character per chunk; a literal of the     *)
(*    source (a dict key, "minecraft:written_book", ...) is one chunk and  *)
(*    holds no quote and no backslash.  Flat(s) is the text itself.        *)
(*  - An optional value (None or x) is the sequence <<>> or <<x>>.         *)
(*  - A Python value that gets rendered (str, bool, int, dict, list) is a  *)
(*    record [t, s, m]: t the type, s the text of an atom, m the entries   *)
(*    [k, v] of a dict (insertion order) or of a list (k = <<>>).          *)
(*  - A method is an operator from the receiver and the arguments to a     *)
(*    record holding the raised error ("" for none), the receiver after    *)
(*    the call and the returned value.                                     *)
(***************************************************************************)
EXTENDS Integers, Sequences, FiniteSets, TLC

VARIABLES
    pc,        \* component scenario: "args", "built", "failed", "rendered", "raised"
    args,      \* component scenario: the constructor call [ctor, ...] drawn at start
    obj,       \* component scenario: the constructed object, <<>> when none
    ret,       \* component scenario: what translate() / to_dict() returned or raised
    page,      \* page scenario: the receiver Page p (its _content list)
    accepted,  \* page scenario: components supplied by the add_component calls that returned
    pcall,     \* page scenario: the last call on p and its outcome
    heap,      \* book scenario: the Page objects, by identity (index)
    book,      \* book scenario: the receiver Book b: _author, _title, _pages (page identities)
    bcall      \* book scenario: the last call on b and its outcome

compVars == <<pc, args, obj, ret>>
pageVars == <<page, accepted, pcall>>
bookVars == <<heap, book, bcall>>
vars == <<pc, args, obj, ret, page, accepted, pcall, heap, book, bcall>>

---------------------------------------------------------------------------
(* Bounds of the model *)

\* longest color token that is generated character by character
MaxColorLen == 7
\* most components a Page of the page scenario holds
MaxContent == 2
\* longest sequence passed to one add_component call
MaxBatch == 2
\* most pages the Book of the book scenario holds
MaxBookPages == 2
\* most components a Page of the book scenario holds
MaxPageFill == 1

---------------------------------------------------------------------------
(* Python strings *)

RECURSIVE Flat(_)
Flat(s) == IF s = <<>> THEN "" ELSE s[1] \o Flat(Tail(s))

StrEq(a, b) == Flat(a) = Flat(b)

Has(s, ch) == \E i \in 1..Len(s) : s[i] = ch

RECURSIVE Concat(_)
Concat(ss) == IF ss = <<>> THEN <<>> ELSE ss[1] \o Concat(Tail(ss))

RECURSIVE Join(_, _)
Join(sep, ss) ==
    IF ss = <<>> THEN <<>>
    ELSE IF Len(ss) = 1 THEN ss[1]
    ELSE ss[1] \o sep \o Join(sep, Tail(ss))

SQ == "'"
DQ == "\""
BS == "\\"

\* repr(str): single quotes unless the text holds a single quote and no double
\* quote; the chosen quote and the backslash are escaped with a backslash.
ReprQuote(s) == IF Has(s, SQ) /\ ~Has(s, DQ) THEN DQ ELSE SQ

RECURSIVE ReprBody(_, _)
ReprBody(s, q) ==
    IF s = <<>> THEN <<>>
    ELSE (IF s[1] = q \/ s[1] = BS THEN <<BS, s[1]>> ELSE <<s[1]>>)
         \o ReprBody(Tail(s), q)

StrRepr(s) == LET q == ReprQuote(s) IN <<q>> \o ReprBody(s, q) \o <<q>>

\* str.replace: every single quote becomes a double quote
ReplaceQuote(s) == [i \in 1..Len(s) |-> IF s[i] = SQ THEN DQ ELSE s[i]]

---------------------------------------------------------------------------
(* Python values and their repr *)

VStr(s) == [t |-> "str", s |-> s, m |-> <<>>]
VBool(b) == [t |-> "bool", s |-> <<IF b THEN "True" ELSE "False">>, m |-> <<>>]
VInt(digits) == [t |-> "int", s |-> <<digits>>, m |-> <<>>]
VDict(entries) == [t |-> "dict", s |-> <<>>, m |-> entries]
VList(items) == [t |-> "list", s |-> <<>>,
                 m |-> [i \in 1..Len(items) |-> [k |-> <<>>, v |-> items[i]]]]

Entry(key, value) == [k |-> <<key>>, v |-> value]

RECURSIVE ValueRepr(_)
ValueRepr(v) ==
    IF v.t = "str" THEN StrRepr(v.s)
    ELSE IF v.t = "dict" THEN
        <<"{">> \o Join(<<", ">>,
                        [i \in 1..Len(v.m) |->
                            StrRepr(v.m[i].k) \o <<": ">> \o ValueRepr(v.m[i].v)])
                \o <<"}">>
    ELSE IF v.t = "list" THEN
        <<"[">> \o Join(<<", ">>, [i \in 1..Len(v.m) |-> ValueRepr(v.m[i].v)])
                \o <<"]">>
    ELSE v.s

\* d[key] = value on an insertion-ordered dict
RECURSIVE DictSet(_, _, _)
DictSet(d, key, value) ==
    IF d = <<>> THEN <<[k |-> key, v |-> value]>>
    ELSE IF StrEq(d[1].k, key) THEN <<[k |-> d[1].k, v |-> value]>> \o Tail(d)
    ELSE <<d[1]>> \o DictSet(Tail(d), key, value)

\* {**a, **b}
RECURSIVE DictMerge(_, _)
DictMerge(a, b) ==
    IF b = <<>> THEN a ELSE DictMerge(DictSet(a, b[1].k, b[1].v), Tail(b))

DictHas(d, key) == \E i \in 1..Len(d) : StrEq(d[i].k, <<key>>)

DictGet(d, key) == d[CHOOSE i \in 1..Len(d) : StrEq(d[i].k, <<key>>)].v

DictKeys(d) == {Flat(d[i].k) : i \in 1..Len(d)}

\* F applied to the value of v, computed once
Bind(v, F(_)) == CHOOSE y \in {F(x) : x \in {v}} : TRUE

Ok(value) == [err |-> "", val |-> value]
Raise(error) == [err |-> error, val |-> VDict(<<>>)]

---------------------------------------------------------------------------
(* Reference data *)

COLOR == <<
    <<"b","l","a","c","k">>, <<"d","a","r","k","_","b","l","u","e">>,
    <<"d","a","r","k","_","g","r","e","e","n">>, <<"d","a","r","k","_","r","e","d">>,
    <<"d","a","r","k","_","p","u","r","p","l","e">>, <<"g","o","l","d">>,
    <<"g","r","a","y">>, <<"d","a","r","k","_","g","r","a","y">>,
    <<"b","l","u","e">>, <<"g","r","e","e","n">>, <<"a","q","u","a">>,
    <<"r","e","d">>, <<"l","i","g","h","t","_","p","u","r","p","l","e">>,
    <<"y","e","l","l","o","w">>, <<"w","h","i","t","e">> >>

\* string.hexdigits
hexdigits == {"0","1","2","3","4","5","6","7","8","9",
              "a","b","c","d","e","f","A","B","C","D","E","F"}

---------------------------------------------------------------------------
(* StringFormat, ClickEvent, Item, Entity *)

StringFormat(bold, italic, underlined, strikethrough, obfuscated, font) ==
    [bold |-> bold, italic |-> italic, underlined |-> underlined,
     strikethrough |-> strikethrough, obfuscated |-> obfuscated, font |-> font]

OptEntry(key, opt, value) == IF opt = <<>> THEN <<>> ELSE <<Entry(key, value)>>

\* only the fields that are not None, in field order
StringFormat_to_dict(f) ==
    OptEntry("bold", f.bold, VBool(f.bold = <<TRUE>>))
    \o OptEntry("italic", f.italic, VBool(f.italic = <<TRUE>>))
    \o OptEntry("underlined", f.underlined, VBool(f.underlined = <<TRUE>>))
    \o OptEntry("strikethrough", f.strikethrough, VBool(f.strikethrough = <<TRUE>>))
    \o OptEntry("obfuscated", f.obfuscated, VBool(f.obfuscated = <<TRUE>>))
    \o OptEntry("font", f.font, VStr(Concat(f.font)))

\* ClickAction: the enum member's value
ClickAction == {"open_url", "open_file", "run_command", "suggest_command",
                "change_page", "copy_to_clipboard"}

ClickEvent(action, value) == [_action |-> action, _value |-> value]

ClickEvent_to_dict(e) ==
    <<Entry("action", VStr(<<e._action>>)), Entry("value", VStr(e._value))>>

Item(id, count, tag) == [id |-> id, count |-> count, tag |-> tag]

Item_to_dict(it) ==
    <<Entry("id", VStr(it.id))>>
    \o (IF it.count = <<>> THEN <<>> ELSE <<Entry("count", VInt(it.count[1]))>>)
    \o OptEntry("tag", it.tag, VStr(Concat(it.tag)))

Entity(type, uuid, name) == [type |-> type, uuid |-> uuid, name |-> name]

Entity_to_dict(en) ==
    <<Entry("type", VStr(en.type)), Entry("uuid", VStr(en.uuid))>>
    \o OptEntry("name", en.name, VStr(Concat(en.name)))

---------------------------------------------------------------------------
(* Objects handed to HoverEvent: cls is the object's class *)

AsComponent(c) == [cls |-> c.cls, comp |-> <<c>>, item |-> <<>>, entity |-> <<>>]
AsItem(it) == [cls |-> "Item", comp |-> <<>>, item |-> <<it>>, entity |-> <<>>]
AsEntity(en) == [cls |-> "Entity", comp |-> <<>>, item |-> <<>>, entity |-> <<en>>]
AsOther(cls) == [cls |-> cls, comp |-> <<>>, item |-> <<>>, entity |-> <<>>]

\* HoverAction: the enum member's value
HoverAction == [TEXT |-> "show_text", ITEM |-> "show_item", ENTITY |-> "show_entity"]

\* The attributes HoverEvent.__init__ sets: has lists the names that exist on the
\* instance; _contents and contents hold what was stored under each name.
HoverEvent_init(contents) ==
    IF contents.cls = "TextComponent" THEN
        [err |-> "",
         self |-> [has |-> {"_contents", "_action"}, _contents |-> <<contents>>,
                   contents |-> <<>>, _action |-> HoverAction.TEXT]]
    ELSE IF contents.cls = "Item" THEN
        [err |-> "",
         self |-> [has |-> {"contents", "_action"}, _contents |-> <<>>,
                   contents |-> <<contents>>, _action |-> HoverAction.ITEM]]
    ELSE IF contents.cls = "Entity" THEN
        [err |-> "",
         self |-> [has |-> {"_contents", "_action"}, _contents |-> <<contents>>,
                   contents |-> <<>>, _action |-> HoverAction.ENTITY]]
    ELSE
        [err |-> "ValueError: Invalid contents type",
         self |-> [has |-> {}, _contents |-> <<>>, contents |-> <<>>, _action |-> ""]]

---------------------------------------------------------------------------
(* Components *)

\* A color argument: a str (isStr) with its characters, or a value of another type.
ColorStr(s) == <<[isStr |-> TRUE, s |-> s]>>
ColorNonStr(s) == <<[isStr |-> FALSE, s |-> s]>>

InCOLOR(s) == \E i \in 1..Len(COLOR) : COLOR[i] = s

color_error == "ValueError: Color cannot not be identify and parse"

\* AnyComponent.__init__ without the length test on a # token
AnyComponent_init_AnyLength(color) ==
    IF color # <<>> /\ ~color[1].isStr THEN color_error
    ELSE IF color # <<>> THEN
        LET s == color[1].s IN
        IF s # <<>> /\ s[1] = "#" THEN
            IF \E i \in 2..Len(s) : s[i] \notin hexdigits THEN color_error
            ELSE ""
        ELSE IF ~InCOLOR(s) THEN color_error
        ELSE ""
    ELSE ""

\* AnyComponent.__init__: "" when the color is accepted, else the error raised
AnyComponent_init(color) ==
    IF color # <<>> /\ ~color[1].isStr THEN color_error
    ELSE IF color # <<>> THEN
        LET s == color[1].s IN
        IF s # <<>> /\ s[1] = "#" THEN
            IF Len(s) # 7 THEN color_error
            ELSE IF \E i \in 2..Len(s) : s[i] \notin hexdigits THEN color_error
            ELSE ""
        ELSE IF ~InCOLOR(s) THEN color_error
        ELSE ""
    ELSE ""

\* The instance a component constructor leaves behind.  a and b are the
\* positional strings of the variant (text / translate / name, objective /
\* selector), sub the nested component (with_json, separator), data the dict
\* of Keybind and Nbt or the wrapped value of Raw.
Component(cls, a, b, color, attribute, hover_event, click_event, fallback, sub, data) ==
    [cls |-> cls, a |-> a, b |-> b, _color |-> color, _char_attribute |-> attribute,
     _hover_event |-> hover_event, _click_event |-> click_event,
     _fallback |-> fallback, sub |-> sub, data |-> data]

NoData == VDict(<<>>)

\* Constructing a component from a call [cls, a, b, color, ...]: RawComponent has
\* its own __init__, every other class ends in AnyComponent.__init__.
Construct(call) ==
    LET e == IF call.cls = "RawComponent" THEN "" ELSE AnyComponent_init(call.color) IN
    [err |-> e,
     self |-> IF e = "" THEN
                  <<Component(call.cls, call.a, call.b, call.color, call.attribute,
                              call.hover_event, call.click_event, call.fallback,
                              call.sub, call.data)>>
              ELSE <<>>]

Truthy(optStr) == optStr # <<>> /\ optStr[1] # <<>>

RECURSIVE Translate(_)
RECURSIVE HoverEvent_to_dict(_)

HoverEvent_to_dict(h) ==
    IF "_contents" \notin h.has THEN Raise("AttributeError: _contents")
    ELSE LET c == h._contents[1] IN
         IF c.cls = "TextComponent" THEN
             LET r == Translate(c.comp[1]) IN
             IF r.err # "" THEN r
             ELSE Ok(VDict(<<Entry("action", VStr(<<h._action>>)), Entry("contents", r.val)>>))
         ELSE IF c.cls = "Item" THEN
             Ok(VDict(<<Entry("action", VStr(<<h._action>>)),
                        Entry("contents", VDict(Item_to_dict(c.item[1])))>>))
         ELSE
             Ok(VDict(<<Entry("action", VStr(<<h._action>>)),
                        Entry("contents", VDict(Entity_to_dict(c.entity[1])))>>))

\* AnyComponent.translate: color, hoverEvent, clickEvent, then the style fields
AnyComponent_translate(c) ==
    LET d1 == IF c._color # <<>> /\ c._color[1].s # <<>>
              THEN <<Entry("color", VStr(c._color[1].s))>> ELSE <<>>
        h  == IF c._hover_event # <<>> THEN HoverEvent_to_dict(c._hover_event[1])
              ELSE Ok(NoData)
        d2 == IF c._hover_event # <<>> THEN DictSet(d1, <<"hoverEvent">>, h.val) ELSE d1
        d3 == IF c._click_event # <<>>
              THEN DictSet(d2, <<"clickEvent">>, VDict(ClickEvent_to_dict(c._click_event[1])))
              ELSE d2
    IN  IF h.err # "" THEN h
        ELSE IF c._char_attribute # <<>>
             THEN Ok(VDict(DictMerge(d3, StringFormat_to_dict(c._char_attribute[1]))))
        ELSE Ok(VDict(d3))

TextComponent_translate(c) ==
    LET s == AnyComponent_translate(c) IN
    IF s.err # "" THEN s
    ELSE Ok(VDict(DictMerge(s.val.m, <<Entry("text", VStr(c.a)),
                                       Entry("type", VStr(<<"text">>))>>)))

\* TranslatableComponent.self_translate builds data and returns nothing: err is
\* what it raised, returned tells whether a mapping came back.
self_translate(c) ==
    LET d1 == IF Truthy(c._fallback) THEN <<Entry("fallback", VStr(c._fallback[1]))>>
              ELSE <<>>
        w  == IF c.sub # <<>> THEN Translate(c.sub[1]) ELSE Ok(NoData)
    IN  [err |-> w.err, returned |-> FALSE,
         val |-> IF c.sub # <<>> /\ w.err = ""
                 THEN VDict(DictSet(d1, <<"with">>, w.val)) ELSE VDict(d1)]

TranslatableComponent_translate(c) ==
    LET s == AnyComponent_translate(c)
        own == DictMerge(s.val.m, <<Entry("translate", VStr(c.a)),
                                    Entry("type", VStr(<<"translatable">>))>>)
        t == self_translate(c)
    IN  IF s.err # "" THEN s
        ELSE IF t.err # "" THEN Raise(t.err)
        ELSE IF ~t.returned THEN Raise("TypeError: 'NoneType' object is not a mapping")
        ELSE Ok(VDict(DictMerge(own, t.val.m)))

ScoreComponent_translate(c) ==
    LET s == AnyComponent_translate(c) IN
    IF s.err # "" THEN s
    ELSE Ok(VDict(DictMerge(s.val.m,
            <<Entry("score", VDict(<<Entry("name", VStr(c.a)),
                                     Entry("objective", VStr(c.b))>>)),
              Entry("type", VStr(<<"score">>))>>)))

EntityComponent_translate(c) ==
    LET s == AnyComponent_translate(c)
        data == DictMerge(s.val.m, <<Entry("type", VStr(<<"selector">>)),
                                     Entry("selector", VStr(c.a))>>)
        sep == IF c.sub # <<>> THEN Translate(c.sub[1]) ELSE Ok(NoData)
    IN  IF s.err # "" THEN s
        ELSE IF c.sub # <<>> THEN
            IF sep.err # "" THEN sep
            ELSE Ok(VDict(DictSet(data, <<"seperator">>, sep.val)))
        ELSE Ok(VDict(data))

KeybindComponent_translate(c) ==
    LET s == AnyComponent_translate(c) IN
    IF s.err # "" THEN s
    ELSE Ok(VDict(DictMerge(s.val.m, <<Entry("keybind", c.data),
                                       Entry("type", VStr(<<"keybind">>))>>)))

NbtComponent_translate(c) ==
    LET s == AnyComponent_translate(c) IN
    IF s.err # "" THEN s
    ELSE Ok(VDict(DictMerge(DictMerge(s.val.m, <<Entry("type", VStr(<<"keybind">>))>>),
                            c.data.m)))

RawComponent_translate(c) == Ok(c.data)

Translate(c) ==
    CASE c.cls = "TextComponent" -> TextComponent_translate(c)
      [] c.cls = "TranslatableComponent" -> TranslatableComponent_translate(c)
      [] c.cls = "ScoreComponent" -> ScoreComponent_translate(c)
      [] c.cls = "EntityComponent" -> EntityComponent_translate(c)
      [] c.cls = "KeybindComponent" -> KeybindComponent_translate(c)
      [] c.cls = "NbtComponent" -> NbtComponent_translate(c)
      [] OTHER -> RawComponent_translate(c)

---------------------------------------------------------------------------
(* Inputs of the component scenario *)

None == <<>>

\* color tokens written character by character, up to MaxColorLen characters
ColorAlphabet == {"#", "F", "g"}

RECURSIVE TokensOfLen(_)
TokensOfLen(n) ==
    IF n = 0 THEN {<<>>}
    ELSE {<<ch>> \o t : ch \in ColorAlphabet, t \in TokensOfLen(n - 1)}

GeneratedTokens == UNION {TokensOfLen(n) : n \in 0..MaxColorLen}

\* the palette, wrongly cased or unknown names, hex tokens of both cases
NamedTokens ==
    {COLOR[i] : i \in 1..Len(COLOR)}
    \cup {<<"R","e","d">>, <<"R","E","D">>, <<"p","i","n","k">>, <<"r","e","d"," ">>,
          <<"#","0","a","F","9","B","c">>, <<"#","A","B","C","D","E","F">>,
          <<"#","a","b","c","d","e","f">>, <<"#","0","1","2","3","4","5">>,
          <<"#","6","7","8","9","0","0">>, <<"#","f","f","f","f","f","G">>,
          <<"#","1","2","3","4","5","G">>, <<"0","a","F","9","B","c","1">>,
          <<"#","1","2","3","4","5","6","7">>, <<"#","1","2","3">>,
          <<"#","1","2","#","4","5","6">>, <<"#","1","2","3","4","5"," ">>}

ColorArgs ==
    {None}
    \cup {ColorStr(t) : t \in GeneratedTokens \cup NamedTokens}
    \cup {ColorNonStr(<<"1">>), ColorNonStr(<<"r","e","d">>)}

SmallColorArgs ==
    {None, ColorStr(<<"r","e","d">>), ColorStr(<<"#","0","a","F","9","B","c">>),
     ColorStr(<<"R","e","d">>)}

Classes == {"TextComponent", "TranslatableComponent", "ScoreComponent",
            "EntityComponent", "KeybindComponent", "NbtComponent", "RawComponent"}

Call(cls, a, b, color, attribute, hover_event, click_event, fallback, sub, data) ==
    [cls |-> cls, a |-> a, b |-> b, color |-> color, attribute |-> attribute,
     hover_event |-> hover_event, click_event |-> click_event,
     fallback |-> fallback, sub |-> sub, data |-> data]

\* nested components: plain texts
LeafTexts ==
    {Component("TextComponent", <<"H","i">>, <<>>, c, f, None, None, None, None, NoData) :
        c \in {None, ColorStr(<<"w","h","i","t","e">>)},
        f \in {None, <<StringFormat(None, None, <<TRUE>>, None, None, None)>>}}

Formats ==
    {None,
     <<StringFormat(None, None, None, None, None, None)>>,
     <<StringFormat(<<TRUE>>, <<FALSE>>, None, None, None, <<<<"f">>>>)>>}

HoverContents ==
    {AsComponent(c) : c \in LeafTexts}
    \cup {AsItem(Item(<<"s","t","o","n","e">>, n, None)) : n \in {None, <<"3">>}}
    \cup {AsEntity(Entity(<<"p","i","g">>, <<"u","1">>, n)) : n \in {None, <<<<"B","o","b">>>>}}
    \cup {AsComponent(Component("ScoreComponent", <<"n">>, <<"o">>, None, None, None,
                                None, None, None, NoData)),
          AsComponent(Component("RawComponent", <<>>, <<>>, None, None, None,
                                None, None, None, VStr(<<"r">>))),
          AsOther("str"), AsOther("dict"), AsOther("NoneType")}

\* hover events a component can be given: those whose construction returned
HoverEvents ==
    {None}
    \cup {<<HoverEvent_init(c).self>> :
            c \in {x \in HoverContents :
                     /\ HoverEvent_init(x).err = ""
                     /\ x.comp = None \/ x.comp[1]._color = None
                     /\ x.item = None \/ x.item[1].count = None
                     /\ x.entity = None \/ x.entity[1].name = None}}

ClickEvents == {None, <<ClickEvent("open_url", <<"u">>)>>}

DataOf(cls) ==
    CASE cls = "KeybindComponent" -> {VDict(<<Entry("key", VStr(<<"j">>))>>)}
      [] cls = "NbtComponent" ->
            {VDict(<<>>), VDict(<<Entry("nbt", VStr(<<"x">>))>>),
             VDict(<<Entry("type", VStr(<<"nbt">>))>>)}
      [] cls = "RawComponent" -> {VStr(<<>>), VStr(<<"r">>), VDict(<<>>)}
      [] OTHER -> {NoData}

SubOf(cls) ==
    IF cls \in {"TranslatableComponent", "EntityComponent"}
    THEN {None} \cup {<<c>> : c \in {x \in LeafTexts : x._char_attribute = None}}
    ELSE {None}

FallbackOf(cls) ==
    IF cls = "TranslatableComponent" THEN {None, <<<<"f","b">>>>, <<<<>>>>} ELSE {None}

\* every class with a few values of each base field
BaseCalls ==
    UNION {{Call(cls, <<"k">>, IF cls = "ScoreComponent" THEN <<"o">> ELSE <<>>,
                 c, f, h, e, fb, sub, d) :
               c \in (IF cls = "RawComponent" THEN {None} ELSE SmallColorArgs),
               f \in (IF cls = "RawComponent" THEN {None} ELSE Formats),
               h \in (IF cls = "RawComponent" THEN {None} ELSE HoverEvents),
               e \in (IF cls = "RawComponent" THEN {None} ELSE ClickEvents),
               fb \in FallbackOf(cls), sub \in SubOf(cls), d \in DataOf(cls)} :
           cls \in Classes}

\* every color token on a component with nothing else set
ColorCalls ==
    {Call("TextComponent", <<"k">>, <<>>, c, None, None, None, None, None, NoData) :
        c \in ColorArgs}
    \cup {Call(cls, <<"k">>, IF cls = "ScoreComponent" THEN <<"o">> ELSE <<>>,
               ColorStr(t), None, None, None, None, None,
               CHOOSE d \in DataOf(cls) : TRUE) :
            cls \in Classes \ {"RawComponent"}, t \in NamedTokens}

ComponentArgs ==
    {[ctor |-> "component", call |-> <<c>>, contents |-> None] :
        c \in BaseCalls \cup ColorCalls}

HoverArgs ==
    {[ctor |-> "hover", call |-> None, contents |-> <<c>>] : c \in HoverContents}

---------------------------------------------------------------------------
(* The component scenario: one constructor call, then one rendering call *)

NoObject == [kind |-> "none", comp |-> None, hover |-> None]

\* Page(): the placeholder alone
NewPage == <<VStr(<<>>)>>

NoPageCall == [op |-> "Page", err |-> "", arg |-> <<>>, before |-> NewPage,
               out |-> <<>>, sum |-> <<>>]

NoBook == [_author |-> <<>>, _title |-> <<>>, _pages |-> <<>>]

NoBookCall == [op |-> "Book", err |-> "", target |-> 0, arg |-> <<>>, selector |-> <<>>,
               count |-> 0, out |-> <<>>, sum |-> <<>>, before |-> NoBook]

InitComp ==
    /\ pc = "args"
    /\ args \in ComponentArgs \cup HoverArgs
    /\ obj = NoObject
    /\ ret = Ok(NoData)
    /\ page = NewPage
    /\ accepted = <<>>
    /\ pcall = NoPageCall
    /\ heap = <<>>
    /\ book = NoBook
    /\ bcall = NoBookCall

\* SomeComponent(...): a component constructor is called
NewComponent ==
    /\ pc = "args"
    /\ args.ctor = "component"
    /\ LET r == Construct(args.call[1]) IN
        /\ pc' = IF r.err = "" THEN "built" ELSE "failed"
        /\ obj' = [kind |-> "component", comp |-> r.self, hover |-> None]
        /\ ret' = [err |-> r.err, val |-> NoData]
    /\ UNCHANGED <<args, pageVars, bookVars>>

\* HoverEvent(contents)
NewHoverEvent ==
    /\ pc = "args"
    /\ args.ctor = "hover"
    /\ LET r == HoverEvent_init(args.contents[1]) IN
        /\ pc' = IF r.err = "" THEN "built" ELSE "failed"
        /\ obj' = [kind |-> "hover", comp |-> None,
                   hover |-> IF r.err = "" THEN <<r.self>> ELSE None]
        /\ ret' = [err |-> r.err, val |-> NoData]
    /\ UNCHANGED <<args, pageVars, bookVars>>

\* component.translate()
CallTranslate ==
    /\ pc = "built"
    /\ obj.kind = "component"
    /\ LET r == Translate(obj.comp[1]) IN
        /\ pc' = IF r.err = "" THEN "rendered" ELSE "raised"
        /\ ret' = r
    /\ UNCHANGED <<args, obj, pageVars, bookVars>>

\* hover_event.to_dict()
CallToDict ==
    /\ pc = "built"
    /\ obj.kind = "hover"
    /\ LET r == HoverEvent_to_dict(obj.hover[1]) IN
        /\ pc' = IF r.err = "" THEN "rendered" ELSE "raised"
        /\ ret' = r
    /\ UNCHANGED <<args, obj, pageVars, bookVars>>

NextComp == NewComponent \/ NewHoverEvent \/ CallTranslate \/ CallToDict

SpecComp == InitComp /\ [][NextComp]_vars

---------------------------------------------------------------------------
(* Page *)

\* An argument of add_component / Page(content=...): cls is "component", a
\* Sequence type ("list", "str") or another type; items are the elements of a
\* list, s the characters of a str.
ObjComponent(c) == [cls |-> "component", comp |-> <<c>>, s |-> <<>>]
ObjStr(s) == [cls |-> "str", comp |-> None, s |-> s]
ObjOther(cls) == [cls |-> cls, comp |-> None, s |-> <<>>]

ArgOne(o) == [cls |-> o.cls, items |-> <<o>>]
ArgList(os) == [cls |-> "list", items |-> os]

\* the elements a Sequence argument iterates over (a str yields its characters)
Elements(arg) ==
    IF arg.cls = "str" THEN [i \in 1..Len(arg.items[1].s) |-> ObjStr(<<arg.items[1].s[i]>>)]
    ELSE arg.items

IsBaseComponent(arg) == arg.cls = "component"
IsSequence(arg) == arg.cls \in {"list", "tuple", "str"}

is_sequence_component(data) ==
    IF ~IsSequence(data) THEN FALSE
    ELSE \A i \in 1..Len(Elements(data)) : Elements(data)[i].cls = "component"

\* for item in other: self._content.append(item.translate())
RECURSIVE AppendEach(_, _)
AppendEach(content, items) ==
    IF items = <<>> THEN [err |-> "", self |-> content]
    ELSE Bind(Translate(items[1].comp[1]),
              LAMBDA r : IF r.err # "" THEN [err |-> r.err, self |-> content]
                         ELSE Bind(Append(content, r.val),
                                   LAMBDA c : AppendEach(c, Tail(items))))

Page_add_component(self, other) ==
    IF ~(IsBaseComponent(other) \/ IsSequence(other)) THEN
        [err |-> "ValueError: You must supply a BaseComponent", self |-> self]
    ELSE IF IsBaseComponent(other) THEN AppendEach(self, other.items)
    ELSE IF ~is_sequence_component(other) THEN
        [err |-> "ValueError: All element must be subclass on BaseComponent",
         self |-> self]
    ELSE AppendEach(self, Elements(other))

\* Page(content): the placeholder, then add_component on every element of content
RECURSIVE AddEach(_, _)
AddEach(content, objs) ==
    IF objs = <<>> THEN [err |-> "", self |-> content]
    ELSE Bind(Page_add_component(content, objs[1]),
              LAMBDA r : IF r.err # "" THEN r ELSE AddEach(r.self, Tail(objs)))

Page_init(content) == AddEach(NewPage, content)

\* what an element of _content is when it is handed back to add_component
ObjOfValue(v) ==
    IF v.t = "str" THEN ArgOne(ObjStr(v.s))
    ELSE IF v.t = "list" THEN ArgList([i \in 1..Len(v.m) |-> ObjOther(v.m[i].v.t)])
    ELSE ArgOne(ObjOther(v.t))

\* p + other: left = Page(content=self._content); left.add_component(other)
Page_add(self, other) ==
    Bind(Page_init([i \in 1..Len(self) |-> ObjOfValue(self[i])]),
         LAMBDA left :
            IF left.err # "" THEN [err |-> left.err, self |-> self, ret |-> None]
            ELSE Bind(Page_add_component(left.self, other),
                      LAMBDA r :
                         IF r.err # "" THEN [err |-> r.err, self |-> self, ret |-> None]
                         ELSE [err |-> "", self |-> self, ret |-> <<r.self>>]))

Page_len(self) == Len(self) - 1

\* translate() that renders the list itself and pops the placeholder off it
Page_translate_PopsPlaceholder(self) ==
    [self |-> Tail(self), ret |-> ReplaceQuote(ValueRepr(VList(self)))]

\* str(self._content.copy()), every single quote replaced by a double quote
Page_translate(self) ==
    [self |-> self, ret |-> ReplaceQuote(ValueRepr(VList(self)))]

---------------------------------------------------------------------------
(* Inputs of the page scenario *)

Plain(text) ==
    Component("TextComponent", text, <<>>, None, None, None, None, None, None, NoData)

\* the components pages are filled with: two texts (one holding a single quote),
\* a raw empty string, a translatable, a text whose hover event shows an item
PageComponents ==
    {Plain(<<"a">>), Plain(<<"b","'">>),
     Component("RawComponent", <<>>, <<>>, None, None, None, None, None, None, VStr(<<>>)),
     Component("TranslatableComponent", <<"k">>, <<>>, None, None, None, None, None,
               None, NoData),
     Component("TextComponent", <<"h">>, <<>>, None, None,
               <<HoverEvent_init(AsItem(Item(<<"s","t","o","n","e">>, None, None))).self>>,
               None, None, None, NoData)}

NonComponents == {ObjStr(<<"x">>), ObjOther("int"), ObjOther("dict"), ObjOther("NoneType")}

RECURSIVE SeqsUpTo(_, _)
SeqsUpTo(S, n) ==
    IF n = 0 THEN {<<>>}
    ELSE SeqsUpTo(S, n - 1)
         \cup {Append(q, x) : q \in {r \in SeqsUpTo(S, n - 1) : Len(r) = n - 1}, x \in S}

PageArgs ==
    {ArgOne(ObjComponent(c)) : c \in PageComponents}
    \cup {ArgOne(o) : o \in NonComponents \cup {ObjStr(<<>>)}}
    \cup {ArgList(q) :
            q \in SeqsUpTo({ObjComponent(c) : c \in PageComponents} \cup NonComponents,
                           MaxBatch)}

ComponentsOf(arg) ==
    LET e == Elements(arg)
        RECURSIVE Pick(_)
        Pick(i) == IF i > Len(e) THEN <<>>
                   ELSE (IF e[i].cls = "component" THEN e[i].comp ELSE <<>>) \o Pick(i + 1)
    IN  Pick(1)

---------------------------------------------------------------------------
(* The page scenario: calls on one Page p *)

InitPage ==
    /\ page = NewPage
    /\ accepted = <<>>
    /\ pcall = NoPageCall
    /\ pc = "idle"
    /\ args = [ctor |-> "none", call |-> None, contents |-> None]
    /\ obj = NoObject
    /\ ret = Ok(NoData)
    /\ heap = <<>>
    /\ book = NoBook
    /\ bcall = NoBookCall

\* p.add_component(other), also p += other
AddComponent ==
    \E other \in PageArgs :
        /\ Page_len(page) + Len(Elements(other)) <= MaxContent
        /\ LET r == Page_add_component(page, other) IN
            /\ page' = r.self
            /\ accepted' = IF r.err = "" THEN accepted \o ComponentsOf(other) ELSE accepted
            /\ pcall' = [op |-> "add_component", err |-> r.err, arg |-> <<other>>,
                         before |-> page, out |-> <<>>, sum |-> <<>>]
        /\ UNCHANGED <<compVars, bookVars>>

\* p + other
PagePlus ==
    \E other \in PageArgs :
        /\ Page_len(page) + Len(Elements(other)) <= MaxContent
        /\ LET r == Page_add(page, other) IN
            /\ page' = r.self
            /\ pcall' = [op |-> "__add__", err |-> r.err, arg |-> <<other>>,
                         before |-> page, out |-> <<>>, sum |-> r.ret]
        /\ UNCHANGED <<accepted, compVars, bookVars>>

\* p.translate()
PageTranslate ==
    /\ LET r == Page_translate(page) IN
        /\ page' = r.self
        /\ pcall' = [op |-> "translate", err |-> "", arg |-> <<>>,
                     before |-> page, out |-> r.ret, sum |-> <<>>]
    /\ UNCHANGED <<accepted, compVars, bookVars>>

NextPage == AddComponent \/ PagePlus \/ PageTranslate

SpecPage == InitPage /\ [][NextPage]_vars

---------------------------------------------------------------------------
(* Book *)

\* str(int)
RECURSIVE NatStr(_)
NatStr(n) ==
    LET d == <<"0","1","2","3","4","5","6","7","8","9">>[(n % 10) + 1] IN
    IF n < 10 THEN <<d>> ELSE NatStr(n \div 10) \o <<d>>

IntStr(n) == IF n < 0 THEN <<"-">> \o NatStr(0 - n) ELSE NatStr(n)

\* An argument of add_page: a Page (its identity), a Sequence or another value
ObjPage(id) == [cls |-> "Page", id |-> id]
ObjNonPage(cls) == [cls |-> cls, id |-> 0]

IsPage(arg) == arg.cls = "Page"

is_sequence_page(data) ==
    IF ~IsSequence(data) THEN FALSE
    ELSE \A i \in 1..Len(data.items) : data.items[i].cls = "Page"

\* Book(author, title, pages): author and title are required
Book_init(author, title, pages) ==
    IF author = None \/ title = None
    THEN [err |-> "TypeError: missing required positional arguments", self |-> NoBook]
    ELSE [err |-> "",
          self |-> [_author |-> author[1], _title |-> title[1],
                    _pages |-> IF pages # None /\ pages[1] # <<>> THEN pages[1] ELSE <<>>]]

Book_add_page(self, apage) ==
    IF ~(IsPage(apage) \/ IsSequence(apage)) THEN
        [err |-> "ValueError: You must supply a BaseComponent", self |-> self]
    ELSE IF IsPage(apage) THEN
        [err |-> "", self |-> [self EXCEPT !._pages = Append(@, apage.items[1].id)]]
    ELSE IF ~is_sequence_page(apage) THEN
        [err |-> "ValueError: All element must be subclass on BaseComponent",
         self |-> self]
    ELSE [err |-> "",
          self |-> [self EXCEPT !._pages =
                        @ \o [i \in 1..Len(apage.items) |-> apage.items[i].id]]]

Book_len(self) == Len(self._pages)

\* b + other: left = Book(pages=self._pages); left.add_page(other).  A non-empty
\* self._pages is the very list left holds, so appending to left appends to self.
Book_add(self, other) ==
    Bind(Book_init(None, None, <<self._pages>>),
         LAMBDA left :
            IF left.err # "" THEN [err |-> left.err, self |-> self, ret |-> None]
            ELSE Bind(Book_add_page(left.self, other),
                      LAMBDA r :
                         [err |-> r.err,
                          self |-> IF self._pages # <<>>
                                   THEN [self EXCEPT !._pages = r.self._pages] ELSE self,
                          ret |-> IF r.err = "" THEN <<r.self>> ELSE None]))

\* [p.translate() for p in self._pages]: the pages after the calls and the texts
RECURSIVE TranslatePages(_, _)
TranslatePages(h, ids) ==
    IF ids = <<>> THEN [heap |-> h, texts |-> <<>>]
    ELSE Bind(Page_translate(h[ids[1]]),
              LAMBDA r :
                 Bind(TranslatePages([h EXCEPT ![ids[1]] = r.self], Tail(ids)),
                      LAMBDA rest : [heap |-> rest.heap,
                                     texts |-> <<VStr(r.ret)>> \o rest.texts]))

\* Book.translate that joins the page texts instead of formatting the list
Book_translate_JoinsPages(self, h) ==
    Bind(TranslatePages(h, self._pages),
         LAMBDA r :
            [self |-> self, heap |-> r.heap,
             ret |-> <<"{">> \o <<"author:", DQ>> \o self._author
                     \o <<DQ, ", title: ", DQ>> \o self._title
                     \o <<DQ, ", pages: [">>
                     \o Join(<<", ">>, [i \in 1..Len(r.texts) |-> r.texts[i].s])
                     \o <<"]}">>])

Book_translate(self, h) ==
    Bind(TranslatePages(h, self._pages),
         LAMBDA r :
            [self |-> self, heap |-> r.heap,
             ret |-> <<"{">> \o <<"author:", DQ>> \o self._author
                     \o <<DQ, ", title: ", DQ>> \o self._title
                     \o <<DQ, ", pages: ">> \o ValueRepr(VList(r.texts)) \o <<"}">>])

Book_item(self, h) ==
    Bind(Book_translate(self, h),
         LAMBDA r : [r EXCEPT !.ret = <<"minecraft:written_book">> \o @])

Book_give_cmd(self, h, selector, count) ==
    Bind(Book_item(self, h),
         LAMBDA r : [r EXCEPT !.ret = <<"/give ">> \o selector \o <<" ">> \o @
                                      \o <<" ">> \o IntStr(count)])

---------------------------------------------------------------------------
(* Inputs of the book scenario *)

\* the two Page objects of the scenario
PageIds == {1, 2}

\* the component pages are filled with: a text holding a single quote and a backslash
BookComponents == {Plain(<<"i", SQ, BS>>)}

Authors == {<<"A">>, <<"n","u","l","l">>}
Titles == {<<"T">>}
Selectors == {<<"@","p">>, <<"@","s">>}
Counts == {5, 10}

BookArgs ==
    {ArgOne(ObjPage(id)) : id \in PageIds}
    \cup {ArgOne(ObjNonPage("int")), ArgList(<<ObjPage(1), ObjNonPage("int")>>)}
    \cup {ArgList(q) : q \in SeqsUpTo({ObjPage(id) : id \in PageIds}, MaxBookPages)}

---------------------------------------------------------------------------
(* The book scenario: two Pages and calls on one Book b *)

InitBook ==
    /\ heap = [id \in PageIds |-> NewPage]
    /\ \E a \in Authors, t \in Titles : book = Book_init(<<a>>, <<t>>, None).self
    /\ bcall = NoBookCall
    /\ page = NewPage
    /\ accepted = <<>>
    /\ pcall = NoPageCall
    /\ pc = "idle"
    /\ args = [ctor |-> "none", call |-> None, contents |-> None]
    /\ obj = NoObject
    /\ ret = Ok(NoData)

Called(op, err, before) == [NoBookCall EXCEPT !.op = op, !.err = err, !.before = before]

\* a page gets a component: page.add_component(c)
FillPage ==
    \E id \in PageIds, c \in BookComponents :
        /\ Page_len(heap[id]) < MaxPageFill
        /\ LET r == Page_add_component(heap[id], ArgOne(ObjComponent(c))) IN
            /\ heap' = [heap EXCEPT ![id] = r.self]
            /\ bcall' = [Called("Page.add_component", r.err, book) EXCEPT !.target = id]
        /\ UNCHANGED <<book, compVars, pageVars>>

\* page.translate() on a page, in the book or not
RenderPage ==
    \E id \in PageIds :
        /\ LET r == Page_translate(heap[id]) IN
            /\ heap' = [heap EXCEPT ![id] = r.self]
            /\ bcall' = [Called("Page.translate", "", book) EXCEPT
                            !.target = id, !.out = r.ret]
        /\ UNCHANGED <<book, compVars, pageVars>>

\* b.add_page(other), also b += other
AddPage ==
    \E other \in BookArgs :
        /\ Book_len(book) + Len(other.items) <= MaxBookPages
        /\ LET r == Book_add_page(book, other) IN
            /\ book' = r.self
            /\ bcall' = [Called("add_page", r.err, book) EXCEPT !.arg = <<other>>]
        /\ UNCHANGED <<heap, compVars, pageVars>>

\* b + other
BookPlus ==
    \E other \in BookArgs :
        /\ Book_len(book) + Len(other.items) <= MaxBookPages
        /\ LET r == Book_add(book, other) IN
            /\ book' = r.self
            /\ bcall' = [Called("__add__", r.err, book) EXCEPT
                            !.arg = <<other>>, !.sum = r.ret]
        /\ UNCHANGED <<heap, compVars, pageVars>>

\* b.translate()
RenderBook ==
    /\ LET r == Book_translate(book, heap) IN
        /\ book' = r.self
        /\ heap' = r.heap
        /\ bcall' = [Called("Book.translate", "", book) EXCEPT !.out = r.ret]
    /\ UNCHANGED <<compVars, pageVars>>

\* b.give_cmd(selector, count)
GiveCmd ==
    \E selector \in Selectors, count \in Counts :
        /\ LET r == Book_give_cmd(book, heap, selector, count) IN
            /\ book' = r.self
            /\ heap' = r.heap
            /\ bcall' = [Called("give_cmd", "", book) EXCEPT
                            !.selector = selector, !.count = count, !.out = r.ret]
        /\ UNCHANGED <<compVars, pageVars>>

NextBook == FillPage \/ RenderPage \/ AddPage \/ BookPlus \/ RenderBook \/ GiveCmd

SpecBook == InitBook /\ [][NextBook]_vars

---------------------------------------------------------------------------
(* The default specification: the Book and its Pages *)

Spec == SpecBook

---------------------------------------------------------------------------
(* Properties of Page (checked under SpecPage) *)

Rendered(comps) == [i \in 1..Len(comps) |-> Translate(comps[i]).val]

AllRender(comps) == \A i \in 1..Len(comps) : Translate(comps[i]).err = ""

IsComponents(arg) == IsBaseComponent(arg) \/ is_sequence_component(arg)

\* C1: the page's content is the placeholder followed by the rendered mappings
\* of exactly the components of the add_component calls that returned, in
\* order; len(page) is their number; a call that raised appended nothing.
C1_ContentIsAcceptedComponents ==
    /\ page = NewPage \o Rendered(accepted)
    /\ Page_len(page) = Len(accepted)
    /\ (pcall.op = "add_component" /\ pcall.err # "") => page = pcall.before

\* C5: for a page p and a component or a sequence of components x (each of
\* which renders), p + x returns a new Page holding p's content followed by the
\* rendered mappings of x, and p is unchanged.
C5_PlusReturnsExtendedCopy ==
    (/\ pcall.op = "__add__"
     /\ IsComponents(pcall.arg[1])
     /\ AllRender(ComponentsOf(pcall.arg[1])))
    => /\ pcall.err = ""
       /\ pcall.sum = <<pcall.before \o Rendered(ComponentsOf(pcall.arg[1]))>>
       /\ page = pcall.before

---------------------------------------------------------------------------
(* Properties of Book (checked under SpecBook) *)

IsPages(arg) == IsPage(arg) \/ is_sequence_page(arg)

PageIdsOf(arg) == [i \in 1..Len(arg.items) |-> arg.items[i].id]

\* C6: for a book b and a Page or a sequence of Pages x, b + x returns a new
\* Book with b's author and title and b's pages followed by x, and b's own
\* page sequence is unchanged.
C6_PlusReturnsExtendedCopy ==
    (bcall.op = "__add__" /\ IsPages(bcall.arg[1]))
    => /\ bcall.err = ""
       /\ bcall.sum = <<[bcall.before EXCEPT !._pages = @ \o PageIdsOf(bcall.arg[1])]>>
       /\ book = bcall.before

RenderOps == {"Page.translate", "Book.translate"}

\* C8: a Page.translate() or Book.translate() step changes neither the book
\* (author, title, page sequence) nor the content of any page, and a render
\* call that directly follows the same render call returns the same text.
C8_RenderNeverMutates ==
    [][/\ bcall'.op \in RenderOps => (heap' = heap /\ book' = book)
       /\ (/\ bcall.op \in RenderOps
           /\ bcall'.op = bcall.op
           /\ bcall'.target = bcall.target) => bcall'.out = bcall.out]_vars

\* the book was rendered while it holds a page that holds a component
C8_Witness ==
    /\ bcall.op = "Book.translate"
    /\ \E i \in 1..Len(book._pages) : Page_len(heap[book._pages[i]]) > 0

\* the text of the pages of the book, each as the page's own encoding
PageTexts(b, h) == [i \in 1..Len(b._pages) |-> Flat(Page_translate(h[b._pages[i]]).ret)]

RECURSIVE JoinText(_, _)
JoinText(sep, texts) ==
    IF texts = <<>> THEN ""
    ELSE IF Len(texts) = 1 THEN texts[1]
    ELSE texts[1] \o sep \o JoinText(sep, Tail(texts))

\* a text between single quotes, each backslash doubled
RECURSIVE DoubleBackslashes(_)
DoubleBackslashes(s) ==
    IF s = <<>> THEN ""
    ELSE (IF s[1] = BS THEN "\\\\" ELSE s[1]) \o DoubleBackslashes(Tail(s))

SingleQuoted(s) == "'" \o DoubleBackslashes(s) \o "'"

QuotedPageTexts(b, h) ==
    [i \in 1..Len(b._pages) |-> SingleQuoted(Page_translate(h[b._pages[i]]).ret)]

IsExampleBook ==
    /\ bcall.before._author = <<"A">>
    /\ bcall.before._title = <<"T">>
    /\ Len(bcall.before._pages) = 1
    /\ heap[bcall.before._pages[1]] = NewPage
    /\ bcall.selector = <<"@","p">>
    /\ bcall.count = 5

---------------------------------------------------------------------------
(* Properties of the components and events (checked under SpecComp) *)

IsComponentCall == args.ctor = "component" /\ args.call[1].cls # "RawComponent"

Called_translate == pc \in {"rendered", "raised"}

HexDigit == {"0","1","2","3","4","5","6","7","8","9"}
            \cup {"a","b","c","d","e","f"} \cup {"A","B","C","D","E","F"}

\* a well-formed color: none, a palette name, or # and six hex digits
AcceptedColor(color) ==
    \/ color = None
    \/ /\ color[1].isStr
       /\ \/ \E i \in 1..15 : COLOR[i] = color[1].s
          \/ /\ Len(color[1].s) = 7
             /\ color[1].s[1] = "#"
             /\ \A i \in 2..7 : color[1].s[i] \in HexDigit

\* C7: constructing a color-accepting component succeeds exactly when the
\* color is absent, a palette name or # followed by six hex digits; otherwise
\* it raises the color error and no component exists.
C7_ColorAcceptedIffWellFormed ==
    (IsComponentCall /\ pc # "args")
    => /\ (pc # "failed") <=> AcceptedColor(args.call[1].color)
       /\ pc = "failed" => (obj.comp = None /\ ret.err = color_error)
       /\ pc # "failed" => (obj.comp # None /\ obj.comp[1]._color = args.call[1].color)

\* a seven-character token that starts with # was refused (a non-hex digit)
C7_Witness ==
    /\ IsComponentCall
    /\ pc = "failed"
    /\ args.call[1].color # None
    /\ args.call[1].color[1].isStr
    /\ Len(args.call[1].color[1].s) = 7
    /\ args.call[1].color[1].s[1] = "#"

ActionOf(cls) ==
    CASE cls = "TextComponent" -> "show_text"
      [] cls = "Item" -> "show_item"
      [] cls = "Entity" -> "show_entity"
      [] OTHER -> ""

ContentsOf(c) ==
    CASE c.cls = "Item" -> VDict(Item_to_dict(c.item[1]))
      [] c.cls = "Entity" -> VDict(Entity_to_dict(c.entity[1]))
      [] OTHER -> Translate(c.comp[1]).val

\* C3: HoverEvent on a text component, an Item or an Entity is constructed
\* and to_dict() returns action show_text, show_item or show_entity with the
\* rendered content; on a value that is no Component, Item or Entity the
\* construction raises the invalid-contents error.
C3_HoverActionMatchesContent ==
    args.ctor = "hover"
    => LET c == args.contents[1] IN
       IF c.cls \in {"TextComponent", "Item", "Entity"} THEN
           /\ pc # "failed"
           /\ Called_translate =>
                /\ pc = "rendered"
                /\ DictHas(ret.val.m, "action")
                /\ DictGet(ret.val.m, "action") = VStr(<<ActionOf(c.cls)>>)
                /\ DictHas(ret.val.m, "contents")
                /\ DictGet(ret.val.m, "contents") = ContentsOf(c)
       ELSE IF c.comp = None THEN
           pc # "args" => (pc = "failed" /\ ret.err = "ValueError: Invalid contents type")
       ELSE TRUE

VariantOf(cls) ==
    CASE cls = "TextComponent" -> "text"
      [] cls = "TranslatableComponent" -> "translatable"
      [] cls = "ScoreComponent" -> "score"
      [] cls = "EntityComponent" -> "selector"
      [] cls = "KeybindComponent" -> "keybind"
      [] cls = "NbtComponent" -> "nbt"
      [] OTHER -> ""

\* C4: the mapping translate() returns for a non-Raw component carries a type
\* key naming the component's own variant, and the style fields at top level.
C4_TypeNamesOwnVariant ==
    (IsComponentCall /\ pc = "rendered")
    => LET c == obj.comp[1] IN
       /\ DictHas(ret.val.m, "type")
       /\ Flat(DictGet(ret.val.m, "type").s) = VariantOf(c.cls)
       /\ c._char_attribute # None =>
            \A i \in 1..Len(StringFormat_to_dict(c._char_attribute[1])) :
                DictHas(ret.val.m, Flat(StringFormat_to_dict(c._char_attribute[1])[i].k))

IsCallOf(cls) == args.ctor = "component" /\ args.call[1].cls = cls

\* C9: translate() of a constructed TranslatableComponent never fails and
\* returns translate, type translatable, fallback exactly when one was given
\* and with (the nested component rendered) exactly when one was given.
C9_TranslatableRenders ==
    (IsCallOf("TranslatableComponent") /\ Called_translate /\ obj.comp[1]._hover_event = None)
    => LET c == obj.comp[1] IN
       /\ pc = "rendered"
       /\ DictHas(ret.val.m, "translate")
       /\ DictGet(ret.val.m, "translate") = VStr(c.a)
       /\ DictHas(ret.val.m, "type")
       /\ Flat(DictGet(ret.val.m, "type").s) = "translatable"
       /\ DictHas(ret.val.m, "fallback") <=> c._fallback # None
       /\ DictHas(ret.val.m, "with") <=> c.sub # None
       /\ c.sub # None => DictGet(ret.val.m, "with") = Translate(c.sub[1]).val

ComponentKeys == {"type", "selector", "color", "bold", "italic", "underlined",
                  "strikethrough", "obfuscated", "font", "hoverEvent", "clickEvent",
                  "separator"}

\* C10: the keys of a rendered EntitySelector are among the component-encoding
\* keys; a supplied separator is rendered under the key separator, and without
\* one there is no separator key.
C10_SelectorKeys ==
    (IsCallOf("EntityComponent") /\ pc = "rendered")
    => LET c == obj.comp[1] IN
       /\ DictKeys(ret.val.m) \subseteq ComponentKeys
       /\ DictHas(ret.val.m, "separator") <=> c.sub # None
       /\ c.sub # None => DictGet(ret.val.m, "separator") = Translate(c.sub[1]).val

====
